---- MODULE Spec2Model ----
(***************************************************************************)
(* Appointment scheduling of GoBarber: AppointmentController.store         *)
(* (booking) and AppointmentController.delete (cancellation), over the     *)
(* appointments table, the notification collection and the mail queue.     *)
(*                                                                         *)
(* Time is counted in ticks; an hour is TicksPerHour ticks, a day is       *)
(* HoursPerDay hours.  Spec runs every request to completion before the    *)
(* next one starts; SpecConc interleaves the requests of two connections   *)
(* at the awaits of the handlers.                                          *)
(***************************************************************************)
EXTENDS Integers, Sequences, FiniteSets, TLC

\* ------------------------------------------------------------------ bounds
MaxAppts == 2
MaxNow == 1
TicksPerHour == 2

\* --------------------------------------------------------------- constants
HoursPerDay == 24
GraceHours == 2

TicksPerDay == HoursPerDay * TicksPerHour

\* canceled_at of an active appointment
null == -1

\* ------------------------------------------------------------------- users
\* The users table: user 1 is a plain client, users 2 and 3 are providers.
Users == {1, 2, 3}
Providers == {2, 3}

\* The users who send requests (req.userId): the client and one provider.
Clients == {1, 2}

\* User.findOne({ where: { id, provider: true } }): the database compares the
\* id by value, whether the bound parameter was a number or a numeric string.
isProvider(provider_id) == provider_id.val \in Providers

\* ------------------------------------------------------------ request body
\* provider_id of the JSON body: a number (any user's id), a numeric string
\* (the id of a user who sends requests), or absent.
ProviderIdInputs ==
    {[val |-> v, kind |-> "number"] : v \in Users}
        \cup {[val |-> v, kind |-> "string"] : v \in Clients}
        \cup {[val |-> 0, kind |-> "undefined"]}

\* date of the JSON body: an ISO string naming a day, an hour and a part of
\* the hour, or a string that is no date.
InvalidDate == [day |-> 0, hour |-> 0, frac |-> 0, valid |-> FALSE]
DateInputs ==
    { [day |-> 0, hour |-> 0, frac |-> 1, valid |-> TRUE],
      [day |-> 0, hour |-> GraceHours, frac |-> 0, valid |-> TRUE],
      [day |-> 1, hour |-> 0, frac |-> 0, valid |-> TRUE],
      InvalidDate }

\* The bodies sent: every body with both fields good, one without
\* provider_id and one whose date is no date.
Bodies ==
    {b \in [provider_id : ProviderIdInputs, date : DateInputs] :
        \/ b.provider_id.kind # "undefined" /\ b.date.valid
        \/ b.provider_id.kind = "undefined" /\ b.date.day = 1
        \/ b.provider_id = [val |-> 3, kind |-> "number"] /\ b.date = InvalidDate}
NoBody == [provider_id |-> [val |-> 0, kind |-> "undefined"], date |-> InvalidDate]

\* Yup schema { provider_id: number().required(), date: date().required() }:
\* isValid casts before it tests, so a numeric string passes as a number.
schemaIsValid(body) ==
    /\ body.provider_id.kind \in {"number", "string"}
    /\ body.date.valid

\* provider_id === req.userId: strict equality, a string never equals a number.
strictEquals(provider_id, userId) ==
    provider_id.kind = "number" /\ provider_id.val = userId

\* --------------------------------------------------------------- date-fns
parseISO(d) == d.day * TicksPerDay + d.hour * TicksPerHour + d.frac
startOfHour(t) == t - (t % TicksPerHour)
startOfDay(t) == t - (t % TicksPerDay)
\* (mutant: the end of the first hour of the day)
endOfDayMut(t) == startOfDay(t) + TicksPerHour - 1
endOfDay(t) == startOfDay(t) + TicksPerDay - 1
subHours(t, h) == t - h * TicksPerHour
isBefore(a, b) == a < b

\* ------------------------------------------------------------------- state
VARIABLES
    now,            \* the clock read by new Date()
    appointments,   \* the appointments table, indexed by id
    notifications,  \* the notification collection
    queue,          \* jobs added to the mail queue
    resp,           \* the last response sent, with the request it answers
    conn            \* the requests in flight on each connection (SpecConc)

vars == <<now, appointments, notifications, queue, resp, conn>>

\* ------------------------------------------------------------ appointments
NoAppointment ==
    [id |-> 0, user_id |-> 0, provider_id |-> 0, date |-> 0, canceled_at |-> null]

\* Appointment.findByPk(req.params.id): the row, or nothing (id 0 here)
findByPk(appts, id) == IF id \in DOMAIN appts THEN appts[id] ELSE NoAppointment

\* Appointment.findOne({ where: { provider_id, canceled_at: null, date: hourStart } })
\* (mutant: the filter names user_id where it means provider_id)
checkAvailabilityMut(appts, provider_id, hourStart) ==
    \E i \in DOMAIN appts :
        /\ appts[i].user_id = provider_id.val
        /\ appts[i].canceled_at = null
        /\ appts[i].date = hourStart
checkAvailability(appts, provider_id, hourStart) ==
    \E i \in DOMAIN appts :
        /\ appts[i].provider_id = provider_id.val
        /\ appts[i].canceled_at = null
        /\ appts[i].date = hourStart

\* Appointment.findOne({ where: { user_id, canceled_at: null,
\*     date: { [Op.between]: [startOfDay(parsedDate), endOfDay(parsedDate)] } } })
\* (mutant: the filter on canceled_at is missing)
checkUserHaveAppointmentAnyRow(appts, userId, parsedDate) ==
    \E i \in DOMAIN appts :
        /\ appts[i].user_id = userId
        /\ startOfDay(parsedDate) <= appts[i].date
        /\ appts[i].date <= endOfDay(parsedDate)
checkUserHaveAppointment(appts, userId, parsedDate) ==
    \E i \in DOMAIN appts :
        /\ appts[i].user_id = userId
        /\ appts[i].canceled_at = null
        /\ startOfDay(parsedDate) <= appts[i].date
        /\ appts[i].date <= endOfDay(parsedDate)

\* The checks of store, in the order the handler makes them, against the
\* table appts at time t; "ok" when the request is admitted.
\*   ValidationFail           'Validation Fail!!!'
\*   SelfBooking              'You can not create a appointment with yourself!!!'
\*   NotAProvider             'You can only create appointments with providers!!!'
\*   PastDate                 'Past date are not permited!!!'
\*   SlotTaken                'Appointment date not available!!!'
\*   DuplicateSameDayBooking  'You already have a appointment that day!!!'
\* (mutant: a date equal to now counts as past)
pastDateMut(hourStart, t) == ~isBefore(t, hourStart)
pastDate(hourStart, t) == isBefore(hourStart, t)

\* the checks that do not read the appointments table
StoreEarlyError(t, userId, body) ==
    IF ~schemaIsValid(body) THEN "ValidationFail"
    ELSE IF strictEquals(body.provider_id, userId) THEN "SelfBooking"
    ELSE IF ~isProvider(body.provider_id) THEN "NotAProvider"
    ELSE IF pastDate(startOfHour(parseISO(body.date)), t) THEN "PastDate"
    ELSE "ok"

StoreError(appts, t, userId, body) ==
    LET provider_id == body.provider_id
        parsedDate == parseISO(body.date)
        hourStart == startOfHour(parsedDate)
        early == StoreEarlyError(t, userId, body)
    IN  IF early # "ok" THEN early
        ELSE IF checkAvailability(appts, provider_id, hourStart) THEN "SlotTaken"
        ELSE IF checkUserHaveAppointment(appts, userId, parsedDate)
             THEN "DuplicateSameDayBooking"
        ELSE "ok"

\* Appointment.create({ user_id, provider_id, date: hourStart })
NewAppointment(appts, userId, body) ==
    [id |-> Len(appts) + 1,
     user_id |-> userId,
     provider_id |-> body.provider_id.val,
     date |-> startOfHour(parseISO(body.date)),
     canceled_at |-> null]

\* Notification.create({ content: `Novo agendamento de ${user.name} para
\* ${formattedDate}`, user: provider_id })
\* (mutant: the notification is addressed to the client)
NewNotificationToClient(userId, body) ==
    [name |-> userId,
     formattedDate |-> startOfHour(parseISO(body.date)),
     user |-> userId,
     read |-> FALSE]
NewNotification(userId, body) ==
    [name |-> userId,
     formattedDate |-> startOfHour(parseISO(body.date)),
     user |-> body.provider_id.val,
     read |-> FALSE]

\* The checks of delete against the fetched row, in the order the handler
\* makes them; "ok" when the cancellation goes ahead.
\*   TypeError        appointment is null: appointment.user_id throws
\*   Forbidden        "You don't have permission to cancel this appointment!!!"
\*   TooLateToCancel  'You can only cancel appointment 2 hours in advance!!!'
\*   AlreadyCanceled  'This appointment Already canceled!!!'
\* (mutant: the window is one hour longer)
tooLateOneHourMore(date, t) == isBefore(subHours(date, GraceHours + 1), t)

tooLate(date, t) == isBefore(subHours(date, GraceHours), t)

\* (mutant: the provider of the appointment may cancel it too)
DeleteErrorProviderToo(appointment, t, userId) ==
    IF appointment = NoAppointment THEN "TypeError"
    ELSE IF appointment.user_id # userId /\ appointment.provider_id # userId
         THEN "Forbidden"
    ELSE IF tooLate(appointment.date, t) THEN "TooLateToCancel"
    ELSE IF appointment.canceled_at # null THEN "AlreadyCanceled"
    ELSE "ok"

\* (mutant: the canceled_at guard is missing)
DeleteErrorNoGuard(appointment, t, userId) ==
    IF appointment = NoAppointment THEN "TypeError"
    ELSE IF appointment.user_id # userId THEN "Forbidden"
    ELSE IF tooLate(appointment.date, t) THEN "TooLateToCancel"
    ELSE "ok"

\* (mutant: the canceled_at guard comes before the two-hour check)
DeleteErrorGuardFirst(appointment, t, userId) ==
    IF appointment = NoAppointment THEN "TypeError"
    ELSE IF appointment.user_id # userId THEN "Forbidden"
    ELSE IF appointment.canceled_at # null THEN "AlreadyCanceled"
    ELSE IF tooLate(appointment.date, t) THEN "TooLateToCancel"
    ELSE "ok"

DeleteError(appointment, t, userId) ==
    IF appointment = NoAppointment THEN "TypeError"
    ELSE IF appointment.user_id # userId THEN "Forbidden"
    ELSE IF tooLate(appointment.date, t) THEN "TooLateToCancel"
    ELSE IF appointment.canceled_at # null THEN "AlreadyCanceled"
    ELSE "ok"

DeleteStatus(err) ==
    IF err = "ok" THEN 200 ELSE IF err = "TypeError" THEN 500 ELSE 401

\* ---------------------------------------------------------------- requests
\* res.status(status).json({ error }) or res.json(appointment)
Response(op, status, error, appointment) ==
    [op |-> op, status |-> status, error |-> error, appointment |-> appointment]

Conns == {1, 2}
Idle ==
    [pc |-> "idle", userId |-> 0, body |-> NoBody, id |-> 0,
     appointment |-> NoAppointment]

Init ==
    /\ now = 0
    /\ appointments = <<>>
    /\ notifications = <<>>
    /\ queue = <<>>
    /\ resp = Response("none", 0, "", NoAppointment)
    /\ conn = [c \in Conns |-> Idle]

\* Time passes.
Tick ==
    /\ now < MaxNow
    /\ now' = now + 1
    /\ UNCHANGED <<appointments, notifications, queue, resp, conn>>

\* (mutant: the row is created before the two probes are consulted)
StoreCreateFirst(userId, body) ==
    LET err == StoreError(appointments, now, userId, body)
        appointment == NewAppointment(appointments, userId, body)
    IN  /\ Len(appointments) < MaxAppts
        /\ IF StoreEarlyError(now, userId, body) # "ok"
           THEN /\ resp' = Response("store", 400, err, NoAppointment)
                /\ UNCHANGED <<now, appointments, notifications, queue, conn>>
           ELSE /\ appointments' = Append(appointments, appointment)
                /\ IF err # "ok"
                   THEN /\ resp' = Response("store", 400, err, NoAppointment)
                        /\ UNCHANGED notifications
                   ELSE /\ resp' = Response("store", 200, "ok", appointment)
                        /\ notifications' =
                            Append(notifications, NewNotification(userId, body))
                /\ UNCHANGED <<now, queue, conn>>

\* POST /appointment, run to completion.
Store(userId, body) ==
    LET err == StoreError(appointments, now, userId, body)
        appointment == NewAppointment(appointments, userId, body)
    IN  IF err # "ok"
        THEN /\ resp' = Response("store", 400, err, NoAppointment)
             /\ UNCHANGED <<now, appointments, notifications, queue, conn>>
        ELSE /\ Len(appointments) < MaxAppts
             /\ appointments' = Append(appointments, appointment)
             /\ notifications' = Append(notifications, NewNotification(userId, body))
             /\ resp' = Response("store", 200, "ok", appointment)
             /\ UNCHANGED <<now, queue, conn>>

\* DELETE /appointment/:id, run to completion.
Delete(userId, id) ==
    LET appointment == findByPk(appointments, id)
        err == DeleteError(appointment, now, userId)
        canceled == [appointment EXCEPT !.canceled_at = now]
    IN  IF err # "ok"
        THEN /\ resp' = Response("delete", DeleteStatus(err), err, NoAppointment)
             /\ UNCHANGED <<now, appointments, notifications, queue, conn>>
        ELSE /\ appointments' = [appointments EXCEPT ![id] = canceled]
             /\ queue' = Append(queue, canceled)
             /\ resp' = Response("delete", 200, "ok", canceled)
             /\ UNCHANGED <<now, notifications, conn>>

Ids == 1..MaxAppts

Next ==
    \/ Tick
    \/ \E userId \in Clients, body \in Bodies : Store(userId, body)
    \/ \E userId \in Clients, id \in Ids : Delete(userId, id)

Spec == Init /\ [][Next]_vars

\* ------------------------------------------- requests on two connections
\* The same handlers, one await at a time: each step below runs from one
\* await on the database or the queue to the next.
ConcBodies ==
    {b \in Bodies : /\ b.provider_id = [val |-> 3, kind |-> "number"]
                    /\ b.date.valid
                    /\ b.date.frac = 0}

InStore(c) == conn[c].pc \in {"checkAvailability", "checkUser", "create"}

\* store up to the past-date check: nothing here reads the appointments
StoreBegin(c, userId, body) ==
    LET err == StoreEarlyError(now, userId, body)
    IN  /\ conn[c].pc = "idle"
        /\ IF err # "ok"
           THEN /\ resp' = Response("store", 400, err, NoAppointment)
                /\ UNCHANGED conn
           ELSE /\ Len(appointments) + Cardinality({d \in Conns : InStore(d)})
                        < MaxAppts
                /\ conn' = [conn EXCEPT ![c] =
                        [Idle EXCEPT !.pc = "checkAvailability",
                                     !.userId = userId, !.body = body]]
                /\ UNCHANGED resp
        /\ UNCHANGED <<now, appointments, notifications, queue>>

\* await Appointment.findOne (checkAvailability) and its early return
StoreCheckAvailability(c) ==
    /\ conn[c].pc = "checkAvailability"
    /\ IF checkAvailability(appointments, conn[c].body.provider_id,
                            startOfHour(parseISO(conn[c].body.date)))
       THEN /\ resp' = Response("store", 400, "SlotTaken", NoAppointment)
            /\ conn' = [conn EXCEPT ![c] = Idle]
       ELSE /\ conn' = [conn EXCEPT ![c].pc = "checkUser"]
            /\ UNCHANGED resp
    /\ UNCHANGED <<now, appointments, notifications, queue>>

\* await Appointment.findOne (checkUserHaveAppointment) and its early return
StoreCheckUser(c) ==
    /\ conn[c].pc = "checkUser"
    /\ IF checkUserHaveAppointment(appointments, conn[c].userId,
                                   parseISO(conn[c].body.date))
       THEN /\ resp' = Response("store", 400, "DuplicateSameDayBooking",
                                NoAppointment)
            /\ conn' = [conn EXCEPT ![c] = Idle]
       ELSE /\ conn' = [conn EXCEPT ![c].pc = "create"]
            /\ UNCHANGED resp
    /\ UNCHANGED <<now, appointments, notifications, queue>>

\* await Appointment.create
StoreCreate(c) ==
    LET appointment == NewAppointment(appointments, conn[c].userId, conn[c].body)
    IN  /\ conn[c].pc = "create"
        /\ appointments' = Append(appointments, appointment)
        /\ conn' = [conn EXCEPT ![c].pc = "notify",
                                ![c].appointment = appointment]
        /\ UNCHANGED <<now, notifications, queue, resp>>

\* await User.findByPk, await Notification.create, res.json(appointment)
StoreNotify(c) ==
    /\ conn[c].pc = "notify"
    /\ notifications' =
            Append(notifications, NewNotification(conn[c].userId, conn[c].body))
    /\ resp' = Response("store", 200, "ok", conn[c].appointment)
    /\ conn' = [conn EXCEPT ![c] = Idle]
    /\ UNCHANGED <<now, appointments, queue>>

\* await Appointment.findByPk
DeleteFetch(c, userId, id) ==
    /\ conn[c].pc = "idle"
    /\ conn' = [conn EXCEPT ![c] =
            [Idle EXCEPT !.pc = "check", !.userId = userId, !.id = id,
                         !.appointment = findByPk(appointments, id)]]
    /\ UNCHANGED <<now, appointments, notifications, queue, resp>>

\* (mutant: the job is built from the row without saving canceled_at)
DeleteCheckNoSave(c) ==
    LET err == DeleteError(conn[c].appointment, now, conn[c].userId)
    IN  /\ conn[c].pc = "check"
        /\ IF err # "ok"
           THEN /\ resp' = Response("delete", DeleteStatus(err), err, NoAppointment)
                /\ conn' = [conn EXCEPT ![c] = Idle]
           ELSE /\ conn' = [conn EXCEPT ![c].pc = "enqueue",
                                        ![c].appointment.canceled_at = now]
                /\ UNCHANGED resp
        /\ UNCHANGED <<now, appointments, notifications, queue>>

\* the three checks on the fetched row, then canceled_at = new Date() and
\* await appointment.save()
DeleteCheck(c) ==
    LET err == DeleteError(conn[c].appointment, now, conn[c].userId)
        id == conn[c].id
    IN  /\ conn[c].pc = "check"
        /\ IF err # "ok"
           THEN /\ resp' = Response("delete", DeleteStatus(err), err, NoAppointment)
                /\ conn' = [conn EXCEPT ![c] = Idle]
                /\ UNCHANGED appointments
           ELSE /\ appointments' = [appointments EXCEPT ![id].canceled_at = now]
                /\ conn' = [conn EXCEPT ![c].pc = "enqueue",
                                        ![c].appointment.canceled_at = now]
                /\ UNCHANGED resp
        /\ UNCHANGED <<now, notifications, queue>>

\* await Queue.add(CancelationMail.key, { appointment }), res.json(appointment)
DeleteEnqueue(c) ==
    /\ conn[c].pc = "enqueue"
    /\ queue' = Append(queue, conn[c].appointment)
    /\ resp' = Response("delete", 200, "ok", conn[c].appointment)
    /\ conn' = [conn EXCEPT ![c] = Idle]
    /\ UNCHANGED <<now, appointments, notifications>>

NextConc ==
    \/ Tick
    \/ \E c \in Conns, userId \in Clients, body \in ConcBodies :
            StoreBegin(c, userId, body)
    \/ \E c \in Conns : StoreCheckAvailability(c)
    \/ \E c \in Conns : StoreCheckUser(c)
    \/ \E c \in Conns : StoreCreate(c)
    \/ \E c \in Conns : StoreNotify(c)
    \/ \E c \in Conns, userId \in Clients, id \in Ids : DeleteFetch(c, userId, id)
    \/ \E c \in Conns : DeleteCheck(c)
    \/ \E c \in Conns : DeleteEnqueue(c)

SpecConc == Init /\ [][NextConc]_vars

\* --------------------------------- the morning of a booked appointment
\* Client A holds an active appointment with provider P at 14:00. The clock
\* of this specification counts from 10:00 of that day and runs a little
\* past noon; the instants one minute or one second before a full hour are
\* the last tick before that hour.
ClientA == CHOOSE u \in Clients : u \notin Providers
ProviderP == CHOOSE p \in Providers : p \notin Clients
At1059 == TicksPerHour - 1
At1100 == TicksPerHour
At1159 == (2 * TicksPerHour) - 1
At1201 == (2 * TicksPerHour) + 1
At1400 == (GraceHours + 2) * TicksPerHour

BookedBody ==
    [provider_id |-> [val |-> ProviderP, kind |-> "number"],
     date |-> [day |-> 0, hour |-> GraceHours + 2, frac |-> 0, valid |-> TRUE]]

\* The state store leaves behind for A's booking, at 10:59:59.
InitBooked ==
    /\ now = At1059
    /\ appointments = <<NewAppointment(<<>>, ClientA, BookedBody)>>
    /\ notifications = <<NewNotification(ClientA, BookedBody)>>
    /\ queue = <<>>
    /\ resp = Response("none", 0, "", NoAppointment)
    /\ conn = [c \in Conns |-> Idle]

\* Time passes, until a tick past noon.
TickMorning ==
    /\ now < At1201
    /\ now' = now + 1
    /\ UNCHANGED <<appointments, notifications, queue, resp, conn>>

NextBooked ==
    \/ TickMorning
    \/ \E userId \in Clients, body \in Bodies : Store(userId, body)
    \/ \E userId \in Clients, id \in Ids : Delete(userId, id)

SpecBooked == InitBooked /\ [][NextBooked]_vars

\* ------------------------- one connection, with failing collaborators
\* await User.findByPk or await Notification.create rejects: the handler
\* throws after Appointment.create, and nothing undoes the row.
StoreNotifyFail(c) ==
    /\ conn[c].pc = "notify"
    /\ resp' = Response("store", 500, "PersistenceError", NoAppointment)
    /\ conn' = [conn EXCEPT ![c] = Idle]
    /\ UNCHANGED <<now, appointments, notifications, queue>>

\* await Queue.add rejects: the handler throws after appointment.save(),
\* before res.json(appointment).
DeleteEnqueueFail(c) ==
    /\ conn[c].pc = "enqueue"
    /\ resp' = Response("delete", 500, "QueueError", NoAppointment)
    /\ conn' = [conn EXCEPT ![c] = Idle]
    /\ UNCHANGED <<now, appointments, notifications, queue>>

StepConns == {c \in Conns : \A d \in Conns : c <= d}

NextStep ==
    \/ Tick
    \/ \E c \in StepConns, userId \in Clients, body \in ConcBodies :
            StoreBegin(c, userId, body)
    \/ \E c \in StepConns : StoreCheckAvailability(c)
    \/ \E c \in StepConns : StoreCheckUser(c)
    \/ \E c \in StepConns : StoreCreate(c)
    \/ \E c \in StepConns : StoreNotify(c)
    \/ \E c \in StepConns : StoreNotifyFail(c)
    \/ \E c \in StepConns, userId \in Clients, id \in Ids :
            DeleteFetch(c, userId, id)
    \/ \E c \in StepConns : DeleteCheck(c)
    \/ \E c \in StepConns : DeleteEnqueue(c)
    \/ \E c \in StepConns : DeleteEnqueueFail(c)

\* What the event loop runs once the database has answered: every
\* continuation of a handler but the one that waits for Queue.add.
Continue(c) ==
    \/ StoreCheckAvailability(c)
    \/ StoreCheckUser(c)
    \/ StoreCreate(c)
    \/ StoreNotify(c)
    \/ StoreNotifyFail(c)
    \/ DeleteCheck(c)

\* The database always answers; the queue may never do.
SpecStep ==
    /\ Init
    /\ [][NextStep]_vars
    /\ \A c \in StepConns : WF_vars(Continue(c))

\* ================================================================== claims
Active(appts) == {i \in DOMAIN appts : appts[i].canceled_at = null}
Canceled(appts) == {i \in DOMAIN appts : appts[i].canceled_at # null}
dayOf(t) == t \div TicksPerDay
hourOf(t) == t \div TicksPerHour

\* C1 (Spec): with requests run one after the other, no two active
\* appointments share the same provider and the same scheduled hour.
C1_SlotExclusivity ==
    \A i, j \in Active(appointments) :
        (/\ appointments[i].provider_id = appointments[j].provider_id
         /\ appointments[i].date = appointments[j].date) => i = j

\* A booking of a slot held by an active appointment was turned down.
C1_Witness ==
    /\ resp.op = "store"
    /\ resp.error = "SlotTaken"
    /\ Active(appointments) # {}

\* C2 (Spec): with requests run one after the other, no client has two
\* active appointments on the same calendar day, whoever the providers are.
C2_DailyExclusivity ==
    \A i, j \in Active(appointments) :
        (/\ appointments[i].user_id = appointments[j].user_id
         /\ dayOf(appointments[i].date) = dayOf(appointments[j].date)) => i = j

\* A client holding an active appointment was refused a second one that day,
\* and holds a second appointment with another provider on another day.
C2_Witness ==
    /\ resp.op = "store"
    /\ resp.error = "DuplicateSameDayBooking"
    /\ \E i, j \in Active(appointments) :
        /\ appointments[i].user_id = appointments[j].user_id
        /\ appointments[i].provider_id # appointments[j].provider_id
        /\ dayOf(appointments[i].date) # dayOf(appointments[j].date)

\* The reason the validation order of the specification gives a structurally
\* valid request: client is not the provider, provider is a provider,
\* hourStart is not before now, slot free, no active booking that day.
OccupiedSlot(appts, providerId, slot) ==
    \E i \in Active(appts) :
        appts[i].provider_id = providerId /\ hourOf(appts[i].date) = slot
BookedDay(appts, clientId, day) ==
    \E i \in Active(appts) :
        appts[i].user_id = clientId /\ dayOf(appts[i].date) = day
C4_Reason(appts, t, userId, body) ==
    LET providerId == body.provider_id.val
        requestedTime == parseISO(body.date)
    IN  IF providerId = userId THEN "SelfBooking"
        ELSE IF providerId \notin Providers THEN "NotAProvider"
        ELSE IF hourOf(requestedTime) * TicksPerHour < t THEN "PastDate"
        ELSE IF OccupiedSlot(appts, providerId, hourOf(requestedTime)) THEN "SlotTaken"
        ELSE IF BookedDay(appts, userId, dayOf(requestedTime))
             THEN "DuplicateSameDayBooking"
        ELSE "ok"

\* C4 (Spec): every structurally valid booking is answered with the reason of
\* the first failing check in the order SelfBooking, NotAProvider, PastDate,
\* SlotTaken, DuplicateSameDayBooking, and is admitted exactly when none fails.
C4_CheckOrder ==
    [][\A userId \in Clients, body \in Bodies :
        (schemaIsValid(body) /\ Store(userId, body))
            => resp'.error = C4_Reason(appointments, now, userId, body)]_vars

\* C5 (Spec): no stored appointment has the client as its provider.
C5_NoSelfBooking ==
    \A i \in DOMAIN appointments :
        appointments[i].user_id # appointments[i].provider_id

\* A booking reaches the past-date check of store.
ReachesDateCheck(userId, body) ==
    /\ schemaIsValid(body)
    /\ ~strictEquals(body.provider_id, userId)
    /\ isProvider(body.provider_id)

C7_GraceBoundaryExclusive ==
    [][\A userId \in Clients, id \in Ids :
        (/\ Delete(userId, id)
         /\ id \in Active(appointments)
         /\ appointments[id].user_id = userId)
            => /\ resp'.error = "ok"
                    => now < appointments[id].date - GraceHours * TicksPerHour
               /\ now = appointments[id].date - GraceHours * TicksPerHour
                    => /\ resp'.error = "TooLateToCancel"
                       /\ appointments'[id].canceled_at = null]_vars

\* C8 as stated (Spec): a cancellation by the owner of an appointment already
\* canceled is rejected with AlreadyCanceled at every time, and canceled_at
\* keeps its value.
C8_AlwaysAlreadyCanceled ==
    [][\A userId \in Clients, id \in Ids :
        (/\ Delete(userId, id)
         /\ id \in Canceled(appointments)
         /\ appointments[id].user_id = userId)
            => /\ resp'.error = "AlreadyCanceled"
               /\ appointments'[id] = appointments[id]]_vars

\* C8 amended (Spec): a cancellation of an appointment already canceled is
\* always rejected, changes no appointment and adds no job; the reason is
\* Forbidden for a user who is not the owner, TooLateToCancel for the owner
\* once now is past scheduledAt - 2h (that check comes first), and
\* AlreadyCanceled for the owner otherwise.
C8_RejectedByFirstFailingCheck ==
    /\ [](\A userId \in Clients, id \in Canceled(appointments) :
            DeleteError(findByPk(appointments, id), now, userId) =
                IF appointments[id].user_id # userId THEN "Forbidden"
                ELSE IF now > appointments[id].date - GraceHours * TicksPerHour
                     THEN "TooLateToCancel"
                ELSE "AlreadyCanceled")
    /\ [][(resp' # resp /\ resp'.op = "delete" /\ resp'.error # "ok")
            => appointments' = appointments /\ queue' = queue]_vars

\* A second cancellation by the owner was turned down as AlreadyCanceled.
C8_Witness ==
    /\ resp.op = "delete"
    /\ resp.error = "AlreadyCanceled"
    /\ Canceled(appointments) # {}

\* C10 (Spec): no later request removes an appointment, and none changes or
\* clears a canceled_at that is set.
C10_CancellationTerminal ==
    [][\A i \in DOMAIN appointments :
        /\ i \in DOMAIN appointments'
        /\ appointments[i].canceled_at # null
            => appointments'[i] = appointments[i]]_vars

\* After a cancellation, the freed slot was booked again and a further
\* cancellation of the canceled appointment was attempted later.
C10_Witness ==
    /\ \E i \in Canceled(appointments), j \in Active(appointments) :
        /\ i < j
        /\ appointments[i].provider_id = appointments[j].provider_id
        /\ appointments[i].date = appointments[j].date
        /\ appointments[i].canceled_at < now
    /\ resp.op = "delete"
    /\ resp.status = 401

\* C3 (SpecConc): with the probes and the insert of concurrent bookings
\* interleaved, every provider still has at most one active appointment per
\* scheduled hour.
C3_ConcurrentSlotExclusivity ==
    \A p \in Providers, i \in Active(appointments) :
        Cardinality({j \in Active(appointments) :
            /\ appointments[j].provider_id = p
            /\ appointments[j].date = appointments[i].date}) <= 1

\* C9 (SpecConc): over any interleaving of cancellations, at most one
\* cancellation-mail job is ever enqueued per appointment.
C9_AtMostOneJob ==
    \A id \in Ids : Cardinality({k \in DOMAIN queue : queue[k].id = id}) <= 1

\* C11 (Spec): a cancellation by a user who is not the client of the
\* appointment, its provider included, is answered Forbidden, and a
\* cancellation answered Forbidden changes no appointment and adds no job.
C11_OnlyOwnerCancels ==
    /\ [](\A userId \in Clients, id \in DOMAIN appointments :
            appointments[id].user_id # userId
                => DeleteError(findByPk(appointments, id), now, userId) = "Forbidden")
    /\ [][resp'.error = "Forbidden"
            => appointments' = appointments /\ queue' = queue]_vars

\* The provider of the only appointment, which is active and cancelable,
\* asked to cancel it and was refused.
C11_Witness ==
    /\ resp.op = "delete"
    /\ resp.error = "Forbidden"
    /\ Len(appointments) = 1
    /\ appointments[1].user_id = 1
    /\ appointments[1].provider_id = 2
    /\ appointments[1].canceled_at = null
    /\ ~tooLate(appointments[1].date, now)
    /\ queue = <<>>

\* C12 (Spec): a cancellation naming an id that matches no appointment ends
\* with the typed NotFound result, and changes neither table nor queue.
C12_UnknownIdNotFound ==
    [][\A userId \in Clients, id \in Ids :
        (id \notin DOMAIN appointments /\ Delete(userId, id))
            => /\ resp'.error = "NotFound"
               /\ appointments' = appointments
               /\ queue' = queue]_vars

\* C13 (Spec): a booking that is rejected, for whatever reason, leaves the
\* appointments, the notifications and the queue as they were.
C13_RejectedStoreNoEffect ==
    [][(resp'.op = "store" /\ resp'.error # "ok")
        => /\ appointments' = appointments
           /\ notifications' = notifications
           /\ queue' = queue]_vars

\* A booking was rejected by a probe of the table while appointments,
\* notifications and jobs exist.
C13_Witness ==
    /\ resp.op = "store"
    /\ resp.error \in {"SlotTaken", "DuplicateSameDayBooking"}
    /\ appointments # <<>>
    /\ notifications # <<>>
    /\ queue # <<>>

ActiveRows(appts) == SelectSeq(appts, LAMBDA a : a.canceled_at = null)

\* C19 (Spec): a canceled appointment frees its slot and its day: every
\* booking gets the answer it would get if the canceled rows were not in the
\* table.
C19_CanceledRowsIgnored ==
    \A userId \in Clients, body \in Bodies :
        StoreError(appointments, now, userId, body)
            = StoreError(ActiveRows(appointments), now, userId, body)

\* After a cancellation its client booked again on the same day.
C19_Witness ==
    /\ resp.op = "store"
    /\ resp.error = "ok"
    /\ \E i \in Canceled(appointments), j \in Active(appointments) :
        /\ i < j
        /\ resp.appointment = appointments[j]
        /\ appointments[i].user_id = appointments[j].user_id
        /\ dayOf(appointments[i].date) = dayOf(appointments[j].date)

\* C15 (SpecStep): a booking that fails after its checks leaves no partial
\* write: whenever no request is in flight, every appointment in the table
\* has its notification.
C15_NoPartialWrite ==
    (\A c \in Conns : conn[c].pc = "idle")
        => Len(notifications) = Len(appointments)

\* C16 (SpecStep): when Queue.add fails after canceled_at was saved, the
\* cancellation stays committed and the caller is answered with the updated
\* appointment, not with an error.
C16_EnqueueFailureNonFatal ==
    [][\A c \in StepConns :
        (conn[c].pc = "enqueue" /\ conn'[c].pc = "idle" /\ queue' = queue)
            => /\ appointments'[conn[c].id].canceled_at # null
               /\ resp'.status = 200
               /\ resp'.appointment = conn[c].appointment]_vars

\* C17 (SpecStep): once canceled_at is saved the response is eventually
\* sent, whether or not the queue ever answers Queue.add.
C17_ResponseDoesNotWaitForQueue ==
    \A c \in StepConns : (conn[c].pc = "enqueue") ~> (conn[c].pc = "idle")

\* C20 (SpecStep): a job is added only after canceled_at is set and saved,
\* so every job in the queue names an appointment whose stored canceled_at
\* is set, and a cancellation answered Forbidden, TooLateToCancel or
\* AlreadyCanceled adds no job.
C20_PersistBeforeEnqueue ==
    /\ [](\A k \in DOMAIN queue :
            /\ queue[k].id \in DOMAIN appointments
            /\ queue[k].canceled_at # null
            /\ appointments[queue[k].id].canceled_at # null)
    /\ [][(resp'.op = "delete"
            /\ resp'.error \in {"Forbidden", "TooLateToCancel", "AlreadyCanceled"})
                => queue' = queue]_vars

\* A job is in the queue, a later cancellation was rejected, and another
\* cancellation has saved canceled_at and not yet reached Queue.add.
C20_Witness ==
    /\ queue # <<>>
    /\ resp.op = "delete"
    /\ resp.error \in {"Forbidden", "TooLateToCancel", "AlreadyCanceled"}
    /\ \E c \in StepConns :
        /\ conn[c].pc = "enqueue"
        /\ appointments[conn[c].id].canceled_at # null
        /\ \A k \in DOMAIN queue : queue[k].id # conn[c].id

\* The appointment of the scenario, while it is active.
IsBookedByA(appointment) ==
    /\ appointment.user_id = ClientA
    /\ appointment.date = At1400
    /\ appointment.canceled_at = null

\* C18 as stated (SpecBooked): A's cancel of the active 14:00 appointment is
\* rejected with TooLateToCancel at 11:59 and at 11:00, and succeeds with one
\* job at 10:59:59.
C18_ScenarioAsWritten ==
    [][\A id \in DOMAIN appointments :
        (IsBookedByA(appointments[id]) /\ Delete(ClientA, id))
            => /\ now \in {At1159, At1100}
                    => (resp'.error = "TooLateToCancel" /\ queue' = queue)
               /\ now = At1059
                    => (resp'.error = "ok" /\ Len(queue') = Len(queue) + 1)]_vars

\* C18 amended (SpecBooked): A's cancel of the active 14:00 appointment
\* succeeds at 10:59:59, at 11:00 and at 11:59, each time saving canceled_at
\* and adding exactly one job for that appointment; at 12:01 it is rejected
\* with TooLateToCancel and adds no job.
C18_ScenarioAsCoded ==
    [][\A id \in DOMAIN appointments :
        (IsBookedByA(appointments[id]) /\ Delete(ClientA, id))
            => /\ now \in {At1059, At1100, At1159}
                    => /\ resp'.error = "ok"
                       /\ appointments'[id].canceled_at = now
                       /\ queue' = Append(queue, appointments'[id])
               /\ now = At1201
                    => /\ resp'.error = "TooLateToCancel"
                       /\ queue' = queue
                       /\ appointments' = appointments]_vars

\* A has cancelled the 14:00 appointment at 11:59 and the job is queued.
C18_Witness ==
    /\ now = At1159
    /\ resp.op = "delete"
    /\ resp.error = "ok"
    /\ resp.appointment.user_id = ClientA
    /\ resp.appointment.date = At1400
    /\ resp.appointment.canceled_at = At1159
    /\ queue = <<resp.appointment>>

====
